---- MODULE Spec2Model ----
(***************************************************************************)
(* A model of tools/generate-governor-config.py, the CPU scaling governor  *)
(* configuration generator of mce.                                         *)
(*                                                                         *)
(* The program is Python 2.  A run parses its arguments, optionally        *)
(* discovers the cpufreq control directories (glob, realpath, write test), *)
(* generates the settings of every directory into the global INI_DATA and  *)
(* prints the four configuration blocks.                                   *)
(*                                                                         *)
(* Texts (paths, formatted values) are sequences of string fragments, an   *)
(* output line is a record [k, n, v]: "path%d=%s" % (n, p) is              *)
(* [k |-> "path", n |-> n, v |-> p].                                        *)
(***************************************************************************)
EXTENDS Naturals, Integers, Sequences, FiniteSets, TLC

VARIABLES
    argv,          \* sys.argv[1:], the directories given on the command line
    globbed,       \* glob.glob(pat): the logical paths cpu<i>/cpufreq, in glob order
    realpath,      \* os.path.realpath of every logical path
    freqfile,      \* per directory: scaling_available_frequencies
    govfile,       \* per directory: scaling_available_governors
    fault,         \* per directory: where the write test's I/O fails, if at all
    hashorder,     \* the iteration order of a Python 2 dict over the directory names
    minfile,       \* per directory: the contents of scaling_min_freq (the probe file)
    pc,            \* position of the main program
    err,           \* the uncaught exception that ended the run, or "none"
    paths,         \* the list iterated by "for dirpath in paths"
    done,          \* canonical paths already seen by the discovery loop
    hits,          \* canonical paths that passed the write test
    gi,            \* discovery loop: index into globbed
    di,            \* generation loop: index into paths
    blk,           \* output loop: index into CONFIG_BLOCKS
    tested,        \* per directory: how many times writetest was called on it
    INI_DATA,      \* section name -> list of lines
    stdout,        \* lines printed
    stderr,        \* diagnostics printed
    run,           \* number of the current run of the program
    prev,          \* what the previous run over the same inputs produced
    call,          \* a pure function's arguments (function specifications only)
    ret            \* a pure function's result   (function specifications only)

inputs == <<argv, globbed, realpath, freqfile, govfile, fault, hashorder>>
process == <<minfile, pc, err, paths, done, hits, gi, di, blk, tested,
             INI_DATA, stdout, stderr>>
vars == <<inputs, process, run, prev, call, ret>>

----------------------------------------------------------------------------
(* Bounds of the model *)

MaxGlob == 3
MaxArgs == 2
MaxRuns == 2
MaxM == 5
MaxFreqVal == 5
MaxWanted == 3
MaxAvail == 3
MaxLen == 3

----------------------------------------------------------------------------
(* Program constants *)

PREFER_PERFORMANCE ==
    <<"performance", "interactive", "ondemand", "conservative", "userspace", "powersave">>

PREFER_INTERACTIVE ==
    <<"interactive", "ondemand", "conservative", "performance", "userspace", "powersave">>

PREFER_POWERSAVE ==
    <<"powersave", "conservative", "interactive", "ondemand", "performance", "userspace">>

CONFIG_BLOCKS ==
    << [scale |-> 80, name |-> "Performance", wanted |-> PREFER_PERFORMANCE],
       [scale |-> 50, name |-> "Interactive", wanted |-> PREFER_INTERACTIVE],
       [scale |-> 0,  name |-> "Inactive",    wanted |-> PREFER_INTERACTIVE],
       [scale |-> 0,  name |-> "Powersave",   wanted |-> PREFER_POWERSAVE] >>

Header == <<"# Automatically generated MCE CPU scaling config file">>

----------------------------------------------------------------------------
(* Helpers *)

Range(s) == {s[i] : i \in DOMAIN s}

Contains(list, x) == \E i \in DOMAIN list : list[i] = x

SeqsUpTo(S, n) == UNION {[1..m -> S] : m \in 0..n}

Line(k, n, v) == [k |-> k, n |-> n, v |-> v]

Digits == <<"0", "1", "2", "3", "4", "5", "6", "7", "8", "9">>

RECURSIVE Decimal(_)
Decimal(n) ==
    IF n < 10 THEN <<Digits[n + 1]>>
    ELSE Append(Decimal(n \div 10), Digits[(n % 10) + 1])

\* Python values handed to add_val: an int or a str
IntVal(i) == [t |-> "int", i |-> i, s |-> ""]
StrVal(s) == [t |-> "str", i |-> 0, s |-> s]

str(d) == IF d.t = "int" THEN Decimal(d.i) ELSE <<d.s>>

join(b, p) == <<b, "/", p>>

None == <<>>
Some(s) == <<s>>

----------------------------------------------------------------------------
(* secname, add_sec, add_val *)

secname(s) == <<"[CPUScalingGovernor", s, "]">>

add_sec(ini, s) ==
    LET sec == secname(s) IN
    IF sec \in DOMAIN ini THEN ini
    ELSE [k \in (DOMAIN ini) \cup {sec} |-> IF k = sec THEN <<>> ELSE ini[k]]

add_val_n_is_len(ini, s, b, p, d) ==
    LET sec == secname(s)
        ini1 == add_sec(ini, s)
        n == Len(ini1[sec]) + 1
    IN  [ini1 EXCEPT ![sec] = @ \o << Line("path", n, join(b, p)),
                                      Line("data", n, str(d)) >>]

add_val(ini, s, b, p, d) ==
    LET sec == secname(s)
        ini1 == add_sec(ini, s)
        n == (Len(ini1[sec]) \div 2) + 1
    IN  [ini1 EXCEPT ![sec] = @ \o << Line("path", n, join(b, p)),
                                      Line("data", n, str(d)) >>]

----------------------------------------------------------------------------
(* select *)

RECURSIVE selectFrom(_, _, _)
selectFrom(available, wanted, i) ==
    IF i > Len(wanted) THEN None
    ELSE IF Contains(available, wanted[i]) THEN Some(wanted[i])
    ELSE selectFrom(available, wanted, i + 1)

RECURSIVE selectByAvailable(_, _, _)
selectByAvailable(available, wanted, i) ==
    IF i > Len(available) THEN None
    ELSE IF Contains(wanted, available[i]) THEN Some(available[i])
    ELSE selectByAvailable(available, wanted, i + 1)

select_first_available(available, wanted) == selectByAvailable(available, wanted, 1)

select(available, wanted) == selectFrom(available, wanted, 1)

----------------------------------------------------------------------------
(* The frequency thresholds of generate_config_data *)

maxval(frequencies) == frequencies[Len(frequencies)]

minindex_rounded(M, scale) == ((M - 1) * scale + 50) \div 100

minindex(M, scale) == ((M - 1) * scale) \div 100

\* Python indexes from 0
minval(frequencies, scale) == frequencies[minindex(Len(frequencies), scale) + 1]

----------------------------------------------------------------------------
(* writetest *)

NoFault == [step |-> "none", written |-> 0]

\* The I/O failures a test of a file holding data can meet.  open(path, "w")
\* truncates; a write or a close (flush) that fails has stored some prefix.
Faults(data) ==
    {NoFault}
    \cup {[step |-> s, written |-> 0] : s \in {"open_r", "read", "open_w"}}
    \cup {[step |-> s, written |-> k] : s \in {"write", "close"}, k \in 0..Len(data)}

writetest_no_write(data, f) ==
    IF f.step \in {"open_r", "read", "open_w"}
    THEN [ack |-> FALSE, content |-> data]
    ELSE IF f.step \in {"write", "close"}
    THEN [ack |-> FALSE, content |-> SubSeq(data, 1, f.written)]
    ELSE [ack |-> TRUE, content |-> <<>>]

writetest(data, f) ==
    IF f.step \in {"open_r", "read"}
    THEN [ack |-> FALSE, content |-> data]
    ELSE LET read == data IN
         IF f.step = "open_w"
         THEN [ack |-> FALSE, content |-> data]
         ELSE LET truncated == <<>> IN
              IF f.step \in {"write", "close"}
              THEN [ack |-> FALSE, content |-> truncated \o SubSeq(read, 1, f.written)]
              ELSE [ack |-> TRUE, content |-> truncated \o read]

----------------------------------------------------------------------------
(* generate_config_data *)

Result(ini, log, e) == [ini |-> ini, log |-> log, err |-> e]

\* A variant that emits the frequency settings only beside a governor setting
config_block_governor_only(ini, log, dirpath, frequencies, governors, b) ==
    LET governor == select(governors, b.wanted) IN
    IF governor = None
    THEN Result(ini, Append(log, Line("# no governor", 0, <<dirpath>>)),
                IF Len(frequencies) = 0 THEN "IndexError" ELSE "none")
    ELSE LET ini1 == add_val(ini, b.name, dirpath, "scaling_governor", StrVal(governor[1])) IN
         IF Len(frequencies) = 0 THEN Result(ini1, log, "IndexError")
         ELSE LET ini2 == add_val(ini1, b.name, dirpath, "scaling_max_freq",
                                  IntVal(maxval(frequencies)))
                  ini3 == add_val(ini2, b.name, dirpath, "scaling_min_freq",
                                  IntVal(minval(frequencies, b.scale)))
              IN  Result(ini3, log, "none")

\* One iteration of "for scale,name,wanted in CONFIG_BLOCKS".  Indexing an
\* empty frequency list raises IndexError, after the governor was handled.
config_block(ini, log, dirpath, frequencies, governors, b) ==
    LET governor == select(governors, b.wanted)
        log1 == IF governor = None
                THEN Append(log, Line("# no governor", 0, <<dirpath>>))
                ELSE log
        ini1 == IF governor = None
                THEN ini
                ELSE add_val(ini, b.name, dirpath, "scaling_governor", StrVal(governor[1]))
    IN  IF Len(frequencies) = 0 THEN Result(ini1, log1, "IndexError")
        ELSE LET ini2 == add_val(ini1, b.name, dirpath, "scaling_max_freq",
                                 IntVal(maxval(frequencies)))
                 ini3 == add_val(ini2, b.name, dirpath, "scaling_min_freq",
                                 IntVal(minval(frequencies, b.scale)))
             IN  Result(ini3, log1, "none")

RECURSIVE config_blocks(_, _, _, _, _, _)
config_blocks(ini, log, dirpath, frequencies, governors, i) ==
    IF i > Len(CONFIG_BLOCKS) THEN Result(ini, log, "none")
    ELSE LET r == config_block(ini, log, dirpath, frequencies, governors, CONFIG_BLOCKS[i]) IN
         IF r.err # "none" THEN r
         ELSE config_blocks(r.ini, r.log, dirpath, frequencies, governors, i + 1)

\* A file that cannot be opened raises IOError before anything is added.
generate_config_data(ini, log, dirpath) ==
    IF ~freqfile[dirpath].ok THEN Result(ini, log, "IOError")
    ELSE IF ~govfile[dirpath].ok THEN Result(ini, log, "IOError")
    ELSE config_blocks(ini, log, dirpath, freqfile[dirpath].data, govfile[dirpath].data, 1)

----------------------------------------------------------------------------
(* The inputs of a run *)

Dir0 == "/sys/devices/system/cpu/cpufreq/policy0"
Dir1 == "/sys/devices/system/cpu/cpufreq/policy1"
Dirs == {Dir0, Dir1}

File(ok, data) == [ok |-> ok, data |-> data]
Unreadable == File(FALSE, <<>>)

\* Contents of scaling_available_frequencies, as the integers read from it
FreqLists == { <<>>, <<600000>>, <<200000, 400000, 600000, 800000, 1000000>> }

\* Contents of scaling_available_governors, split at white space
GovLists == { <<"schedutil">>,
              <<"userspace">>,
              <<"conservative", "ondemand", "performance">>,
              <<"performance", "powersave">> }

FreqFiles == {File(TRUE, f) : f \in FreqLists} \cup {Unreadable}
GovFiles == {File(TRUE, g) : g \in GovLists} \cup {Unreadable}

DefaultFreqFile == File(TRUE, <<600000>>)
DefaultGovFile == File(TRUE, <<"userspace">>)

\* Contents of scaling_min_freq before the run
ProbeData == <<"200000", "\n">>

DirOrders == {s \in [1..Cardinality(Dirs) -> Dirs] : Range(s) = Dirs}

\* Whether a run may read the enumeration files of directory d
Read(av, rp, fl, d) ==
    IF av # <<>> THEN d \in Range(av) ELSE d \in Range(rp) /\ fl[d] = NoFault

NoCall == [fn |-> "none"]
NoRet == [done |-> FALSE]
NoPrev == [set |-> FALSE, stdout |-> <<>>, err |-> "none"]

InputsOK ==
    /\ argv \in SeqsUpTo(Dirs, MaxArgs)
    /\ \E n \in 0..MaxGlob :
         /\ globbed = [i \in 1..n |-> i]
         /\ realpath \in [1..n -> Dirs]
    /\ argv # <<>> => globbed = <<>>
    /\ fault \in [Dirs -> Faults(ProbeData)]
    /\ freqfile \in [Dirs -> FreqFiles]
    /\ govfile \in [Dirs -> GovFiles]
    /\ hashorder \in DirOrders
    \* what a run never looks at is left at a default
    /\ \A d \in Dirs :
         /\ (argv # <<>> \/ d \notin Range(realpath)) => fault[d] = NoFault
         /\ ~Read(argv, realpath, fault, d) => freqfile[d] = DefaultFreqFile
         /\ (~Read(argv, realpath, fault, d) \/ freqfile[d] = Unreadable) =>
                govfile[d] = DefaultGovFile
    /\ (argv # <<>> \/ Range(realpath) # Dirs) => hashorder = <<Dir0, Dir1>>

\* The state of a process that has just started
ProcessStart ==
    [minfile |-> [d \in Dirs |-> ProbeData], pc |-> "start", err |-> "none",
     paths |-> <<>>, done |-> {}, hits |-> {}, gi |-> 1, di |-> 1, blk |-> 1,
     tested |-> [d \in Dirs |-> 0], INI_DATA |-> [k \in {} |-> <<>>],
     stdout |-> <<>>, stderr |-> <<>>]

Init ==
    /\ InputsOK
    /\ minfile = ProcessStart.minfile
    /\ pc = ProcessStart.pc
    /\ err = ProcessStart.err
    /\ paths = ProcessStart.paths
    /\ done = ProcessStart.done
    /\ hits = ProcessStart.hits
    /\ gi = ProcessStart.gi
    /\ di = ProcessStart.di
    /\ blk = ProcessStart.blk
    /\ tested = ProcessStart.tested
    /\ INI_DATA = ProcessStart.INI_DATA
    /\ stdout = ProcessStart.stdout
    /\ stderr = ProcessStart.stderr
    /\ run = 1
    /\ prev = NoPrev
    /\ call = NoCall
    /\ ret = NoRet

----------------------------------------------------------------------------
(* The main program *)

\* paths = sys.argv[1:]; "if not paths" enters discovery
ParseArgs ==
    /\ pc = "start"
    /\ paths' = argv
    /\ pc' = IF argv = <<>> THEN "discover" ELSE "generate"
    /\ UNCHANGED <<inputs, minfile, err, done, hits, gi, di, blk, tested,
                   INI_DATA, stdout, stderr, run, prev, call, ret>>

AlreadyDoneNever(d, dn) == FALSE

\* "if d in done: continue"
AlreadyDone(d, dn) == d \in dn

\* One iteration of "for d in glob.glob(pat)"
Discover ==
    /\ pc = "discover"
    /\ gi <= Len(globbed)
    /\ LET d == realpath[globbed[gi]] IN
       IF AlreadyDone(d, done)
       THEN UNCHANGED <<done, hits, minfile, tested, stderr>>
       ELSE LET t == writetest(minfile[d], fault[d]) IN
            /\ done' = done \cup {d}
            /\ minfile' = [minfile EXCEPT ![d] = t.content]
            /\ tested' = [tested EXCEPT ![d] = @ + 1]
            /\ IF t.ack
               THEN /\ stderr' = Append(stderr, Line("# including", 0, <<d>>))
                    /\ hits' = hits \cup {d}
               ELSE /\ stderr' = Append(stderr, Line("# excluding", 0, <<d>>))
                    /\ hits' = hits
    /\ gi' = gi + 1
    /\ UNCHANGED <<inputs, pc, err, paths, di, blk, INI_DATA, stdout, run, prev,
                   call, ret>>

\* A dict whose order differs from one process to the next (hash randomisation)
keys_randomized(h) ==
    IF run % 2 = 0
    THEN SelectSeq([i \in DOMAIN hashorder |-> hashorder[Len(hashorder) + 1 - i]],
                   LAMBDA d : d \in h)
    ELSE SelectSeq(hashorder, LAMBDA d : d \in h)

\* hits.keys() of a Python 2 dict: the keys in the order of the hash table
keys(h) == SelectSeq(hashorder, LAMBDA d : d \in h)

\* "paths = hits.keys()", at the end of the discovery loop
EndDiscover ==
    /\ pc = "discover"
    /\ gi > Len(globbed)
    /\ paths' = keys(hits)
    /\ pc' = "generate"
    /\ UNCHANGED <<inputs, minfile, err, done, hits, gi, di, blk, tested,
                   INI_DATA, stdout, stderr, run, prev, call, ret>>

\* One iteration of "for dirpath in paths"
Generate ==
    /\ pc = "generate"
    /\ di <= Len(paths)
    /\ LET r == generate_config_data(INI_DATA, stderr, paths[di]) IN
       /\ INI_DATA' = r.ini
       /\ stderr' = r.log
       /\ err' = r.err
       /\ pc' = IF r.err = "none" THEN "generate" ELSE "error"
       /\ di' = IF r.err = "none" THEN di + 1 ELSE di
    /\ UNCHANGED <<inputs, minfile, paths, done, hits, gi, blk, tested, stdout,
                   run, prev, call, ret>>

\* The header line and the blank line after it
PrintHeader ==
    /\ pc = "generate"
    /\ di > Len(paths)
    /\ stdout' = stdout \o <<Line("text", 0, Header), Line("text", 0, <<"">>)>>
    /\ pc' = "output"
    /\ UNCHANGED <<inputs, minfile, err, paths, done, hits, gi, di, blk, tested,
                   INI_DATA, stderr, run, prev, call, ret>>

\* One iteration of the output loop: the section name is printed, then
\* INI_DATA[s] is looked up, which raises KeyError for a section never added.
PrintBlock ==
    /\ pc = "output"
    /\ blk <= Len(CONFIG_BLOCKS)
    /\ LET s == secname(CONFIG_BLOCKS[blk].name) IN
       IF s \in DOMAIN INI_DATA
       THEN /\ stdout' = stdout \o <<Line("text", 0, s)>> \o INI_DATA[s]
                                \o <<Line("text", 0, <<"">>)>>
            /\ blk' = blk + 1
            /\ pc' = IF blk = Len(CONFIG_BLOCKS) THEN "done" ELSE "output"
            /\ err' = err
       ELSE /\ stdout' = stdout \o <<Line("text", 0, s)>>
            /\ blk' = blk
            /\ pc' = "error"
            /\ err' = "KeyError"
    /\ UNCHANGED <<inputs, minfile, paths, done, hits, gi, di, tested, INI_DATA,
                   stderr, run, prev, call, ret>>

\* The program is started again over the same inputs
Rerun ==
    /\ pc \in {"done", "error"}
    /\ run < MaxRuns
    /\ run' = run + 1
    /\ prev' = [set |-> TRUE, stdout |-> stdout, err |-> err]
    /\ minfile' = ProcessStart.minfile
    /\ pc' = ProcessStart.pc
    /\ err' = ProcessStart.err
    /\ paths' = ProcessStart.paths
    /\ done' = ProcessStart.done
    /\ hits' = ProcessStart.hits
    /\ gi' = ProcessStart.gi
    /\ di' = ProcessStart.di
    /\ blk' = ProcessStart.blk
    /\ tested' = ProcessStart.tested
    /\ INI_DATA' = ProcessStart.INI_DATA
    /\ stdout' = ProcessStart.stdout
    /\ stderr' = ProcessStart.stderr
    /\ UNCHANGED <<inputs, call, ret>>

Next ==
    \/ ParseArgs
    \/ Discover
    \/ EndDiscover
    \/ Generate
    \/ PrintHeader
    \/ PrintBlock
    \/ Rerun

Spec == Init /\ [][Next]_vars

----------------------------------------------------------------------------
(* The pure functions on their own: the arguments are drawn by the initial *)
(* state, the one action applies the function.                             *)

FunctionInit(calls) ==
    /\ argv = <<>>
    /\ globbed = <<>>
    /\ realpath = <<>>
    /\ fault = [d \in Dirs |-> NoFault]
    /\ freqfile = [d \in Dirs |-> DefaultFreqFile]
    /\ govfile = [d \in Dirs |-> DefaultGovFile]
    /\ hashorder = <<Dir0, Dir1>>
    /\ minfile = ProcessStart.minfile
    /\ pc = "idle"
    /\ err = ProcessStart.err
    /\ paths = ProcessStart.paths
    /\ done = ProcessStart.done
    /\ hits = ProcessStart.hits
    /\ gi = ProcessStart.gi
    /\ di = ProcessStart.di
    /\ blk = ProcessStart.blk
    /\ tested = ProcessStart.tested
    /\ INI_DATA = ProcessStart.INI_DATA
    /\ stdout = ProcessStart.stdout
    /\ stderr = ProcessStart.stderr
    /\ run = 1
    /\ prev = NoPrev
    /\ call \in calls
    /\ ret = NoRet

\* Ascending frequency lists of 1 to MaxM entries
AscendingLists ==
    UNION { {f \in [1..m -> 1..MaxFreqVal] : \A i \in 1..(m - 1) : f[i] <= f[i + 1]}
            : m \in 1..MaxM }

ThresholdCalls ==
    {[fn |-> "threshold", frequencies |-> f, scale |-> s] :
        f \in AscendingLists, s \in 0..100}

\* Lines 101-102 of generate_config_data, for any scale
CallThreshold ==
    /\ call.fn = "threshold"
    /\ ~ret.done
    /\ ret' = [done |-> TRUE,
               maxval |-> maxval(call.frequencies),
               minval |-> minval(call.frequencies, call.scale)]
    /\ UNCHANGED <<inputs, process, run, prev, call>>

InitThreshold == FunctionInit(ThresholdCalls)
NextThreshold == CallThreshold
SpecThreshold == InitThreshold /\ [][NextThreshold]_vars

GovernorNames == {"ondemand", "performance", "userspace"}

SelectCalls ==
    {[fn |-> "select", available |-> a, wanted |-> w] :
        a \in SeqsUpTo(GovernorNames, MaxAvail), w \in SeqsUpTo(GovernorNames, MaxWanted)}

CallSelect ==
    /\ call.fn = "select"
    /\ ~ret.done
    /\ ret' = [done |-> TRUE, value |-> select(call.available, call.wanted)]
    /\ UNCHANGED <<inputs, process, run, prev, call>>

InitSelect == FunctionInit(SelectCalls)
NextSelect == CallSelect
SpecSelect == InitSelect /\ [][NextSelect]_vars

Bytes == {"0", "1"}

WritetestCalls ==
    UNION { {[fn |-> "writetest", data |-> d, fault |-> f] : f \in Faults(d)}
            : d \in SeqsUpTo(Bytes, MaxLen) }

CallWritetest ==
    /\ call.fn = "writetest"
    /\ ~ret.done
    /\ LET t == writetest(call.data, call.fault) IN
       ret' = [done |-> TRUE, ack |-> t.ack, content |-> t.content]
    /\ UNCHANGED <<inputs, process, run, prev, call>>

InitWritetest == FunctionInit(WritetestCalls)
NextWritetest == CallWritetest
SpecWritetest == InitWritetest /\ [][NextWritetest]_vars

----------------------------------------------------------------------------
(* The claims *)

SettingFiles == {"scaling_governor", "scaling_max_freq", "scaling_min_freq"}

Section(name) ==
    IF secname(name) \in DOMAIN INI_DATA THEN INI_DATA[secname(name)] ELSE <<>>

\* The position at which directory d is first met by the discovery loop
FirstSeen(d) ==
    CHOOSE i \in DOMAIN globbed :
        /\ realpath[globbed[i]] = d
        /\ \A j \in 1..(i - 1) : realpath[globbed[j]] # d

\* C1: for an ascending frequency list of M >= 1 entries and a scale in
\* 0..100, the minimum is the entry at index floor((M-1)*scale/100), an index
\* within 0..M-1, and the maximum is the last entry; scale 0 gives the
\* smallest frequency, scale 100 a minimum equal to the maximum.
C1_Thresholds ==
    ret.done =>
        LET f == call.frequencies
            M == Len(f)
            s == call.scale
        IN  /\ \E idx \in 0..(M - 1) :
                 /\ idx * 100 <= (M - 1) * s
                 /\ (M - 1) * s < (idx + 1) * 100
                 /\ ret.minval = f[idx + 1]
            /\ ret.maxval = f[M]
            /\ \A i \in 1..M : f[i] <= ret.maxval
            /\ s = 0 => \A i \in 1..M : ret.minval <= f[i]
            /\ s = 100 => ret.minval = ret.maxval

\* C1 witness: the list 1..5 at scale 80 gives index 3, minimum 4, maximum 5
C1_Witness ==
    /\ ret.done
    /\ call.frequencies = <<1, 2, 3, 4, 5>>
    /\ call.scale = 80
    /\ ret.minval = 4
    /\ ret.maxval = 5

\* C2: select returns the first entry of wanted that is present in
\* available, returns None exactly when the two have no common element, and
\* returns the same for every ordering of available.
C2_Select ==
    ret.done =>
        LET a == call.available
            w == call.wanted
            r == ret.value
        IN  /\ (r = None) <=> (Range(a) \cap Range(w) = {})
            /\ r # None =>
                 \E i \in DOMAIN w :
                     /\ r = Some(w[i])
                     /\ w[i] \in Range(a)
                     /\ \A j \in 1..(i - 1) : w[j] \notin Range(a)
            /\ \A q \in Permutations(DOMAIN a) :
                 select([i \in DOMAIN a |-> a[q[i]]], w) = r

\* C2 witness: the second preference is selected although it comes last in
\* the available list
C2_Witness ==
    /\ ret.done
    /\ call.wanted = <<"userspace", "ondemand", "performance">>
    /\ call.available = <<"performance", "ondemand">>
    /\ ret.value = Some("ondemand")

\* C3: in discovery mode every canonical directory is write-tested at most
\* once and is listed at most once in paths, so every section holds each of
\* its settings at most once.
C3_Dedup ==
    argv = <<>> =>
        /\ \A d \in Dirs : tested[d] <= 1
        /\ \A i, j \in DOMAIN paths : i # j => paths[i] # paths[j]
        /\ \A sec \in DOMAIN INI_DATA : \A d \in Dirs : \A file \in SettingFiles :
             Cardinality({i \in DOMAIN INI_DATA[sec] :
                            /\ INI_DATA[sec][i].k = "path"
                            /\ INI_DATA[sec][i].v = join(d, file)}) <= 1

\* C3 witness: a finished discovery run in which two logical paths resolved
\* to the same writable directory
C3_Witness ==
    /\ argv = <<>>
    /\ pc = "done"
    /\ \E i, j \in DOMAIN globbed :
         /\ i < j
         /\ realpath[globbed[i]] = realpath[globbed[j]]
         /\ realpath[globbed[i]] \in hits
         /\ tested[realpath[globbed[i]]] = 1

\* C4: when writetest returns True the file holds what it held before.
C4_SuccessKeepsContents ==
    (ret.done /\ ret.ack) => ret.content = call.data

\* C4 witness: a successful test of a file of two bytes or more
C4_Witness ==
    /\ ret.done
    /\ ret.ack
    /\ Len(call.data) >= 2
    /\ ret.content = call.data

\* C5: when writetest fails the probe file holds what it held before, and
\* the directory was tested once and is not among the eligible ones.
C5_FailureKeepsContents ==
    \A d \in done \ hits :
        /\ minfile[d] = ProbeData
        /\ tested[d] = 1
        /\ ~Contains(paths, d)

\* C6: every section has even length, and its entries 2k-1 and 2k are path<k>
\* and data<k>, for k from 1 to half the length.
C6_Numbering ==
    \A sec \in DOMAIN INI_DATA :
        LET l == INI_DATA[sec] IN
        /\ Len(l) % 2 = 0
        /\ \A k \in 1..(Len(l) \div 2) :
             /\ l[2 * k - 1].k = "path"
             /\ l[2 * k - 1].n = k
             /\ l[2 * k].k = "data"
             /\ l[2 * k].n = k

\* C6 witness: a section of four settings beside a section of three
C6_Witness ==
    \E s1, s2 \in DOMAIN INI_DATA :
        /\ Len(INI_DATA[s1]) = 8
        /\ Len(INI_DATA[s2]) = 6

HasGovernor(d, b) == Range(govfile[d].data) \cap Range(b.wanted) # {}

\* The setting files a section is to hold after the first n directories
RECURSIVE ExpectedFiles(_, _)
ExpectedFiles(b, n) ==
    IF n = 0 THEN <<>>
    ELSE ExpectedFiles(b, n - 1)
         \o (IF HasGovernor(paths[n], b)
             THEN <<join(paths[n], "scaling_governor")>> ELSE <<>>)
         \o <<join(paths[n], "scaling_max_freq"), join(paths[n], "scaling_min_freq")>>

PathsOf(l) == [k \in 1..(Len(l) \div 2) |-> l[2 * k - 1].v]

\* C7: for every directory processed and every scenario, the section gets a
\* scaling_governor pair only if a governor matches, then a scaling_max_freq
\* pair, then a scaling_min_freq pair; without a governor the two frequency
\* pairs are still added and the next directory is processed.
C7_SettingsPerDirectory ==
    pc \in {"generate", "output", "done"} =>
        \A i \in DOMAIN CONFIG_BLOCKS :
            PathsOf(Section(CONFIG_BLOCKS[i].name)) = ExpectedFiles(CONFIG_BLOCKS[i], di - 1)

\* C7 witness: a finished run in which a directory without a matching
\* governor was followed by one with a matching governor
C7_Witness ==
    /\ pc = "done"
    /\ \E i \in DOMAIN paths :
         /\ i < Len(paths)
         /\ \A k \in DOMAIN CONFIG_BLOCKS : ~HasGovernor(paths[i], CONFIG_BLOCKS[k])
         /\ \A k \in DOMAIN CONFIG_BLOCKS : HasGovernor(paths[i + 1], CONFIG_BLOCKS[k])

RECURSIVE Blocks(_)
Blocks(n) ==
    IF n = 0 THEN <<>>
    ELSE Blocks(n - 1)
         \o <<Line("text", 0, secname(CONFIG_BLOCKS[n].name))>>
         \o Section(CONFIG_BLOCKS[n].name)
         \o <<Line("text", 0, <<"">>)>>

Document == <<Line("text", 0, Header), Line("text", 0, <<"">>)>> \o Blocks(Len(CONFIG_BLOCKS))

\* C8: once the directories are generated, rendering raises no error of its
\* own and ends having printed the header, a blank line and the four blocks
\* in the order of CONFIG_BLOCKS, also when there is no directory at all.
C8_RenderingCompletes ==
    /\ err # "KeyError"
    /\ pc = "done" => stdout = Document

\* C9: in discovery mode the eligible directories are processed in the order
\* in which they were first seen, and in every section every setting of a
\* directory seen earlier precedes every setting of one seen later.
C9_FirstSeenOrder ==
    (argv = <<>> /\ pc \in {"generate", "output", "done"}) =>
        /\ \A i, j \in DOMAIN paths :
             i < j => FirstSeen(paths[i]) < FirstSeen(paths[j])
        /\ \A sec \in DOMAIN INI_DATA : \A i, j \in DOMAIN INI_DATA[sec] :
             LET li == INI_DATA[sec][i]
                 lj == INI_DATA[sec][j]
             IN  (/\ li.k = "path"
                  /\ lj.k = "path"
                  /\ li.v[1] # lj.v[1]
                  /\ FirstSeen(li.v[1]) < FirstSeen(lj.v[1])) => i < j

====
